---- MODULE Spec2Model ----
(***************************************************************************)
(* ipfs-server: the command-line front end of an IPFS node.                *)
(*                                                                         *)
(* The model follows src/src/main.rs (main) and src/src/arguments.rs       *)
(* (arguments, the command dispatcher).  One run of main is a walk of pc   *)
(* through the awaited calls of main; every awaited call of the external   *)
(* node service, of the file system and of the config module has its       *)
(* outcome (Ok / Err, next stream item) drawn nondeterministically.        *)
(* The keypair file outlives a run, so a second run of the program on the  *)
(* same file system is part of the model.                                  *)
(***************************************************************************)
EXTENDS Integers, Sequences, FiniteSets, TLC

(***************************************************************************)
(* Bounds of the model.                                                    *)
(***************************************************************************)
MaxRelays == 2
MaxBootstraps == 2
MaxStream == 3
MaxEvents == 4

\* Option<T>
None == <<>>
Some(x) == <<x>>
Unwrap(o) == o[1]

(***************************************************************************)
(* Key material.  A keypair is its secret bytes; the public half and the   *)
(* peer identifier are derived from the secret.                            *)
(***************************************************************************)
Keys == {<<7, 200>>, <<131, 66>>}

Public(secret) == <<(secret[1] + 2 * secret[2]) % 256, (3 * secret[1] + secret[2] + 1) % 256>>

PeerIdOf(kp) == Public(kp)

(***************************************************************************)
(* Keypair::to_protobuf_encoding / Keypair::from_protobuf_encoding: a      *)
(* PrivateKey message, field 1 = key type (Ed25519 = 1), field 2 = data    *)
(* (secret bytes followed by public bytes).                                *)
(***************************************************************************)
to_protobuf_encoding(kp) == <<8, 1, 18, 4>> \o kp \o Public(kp)

from_protobuf_encoding(bytes) ==
    IF /\ Len(bytes) = 8
       /\ SubSeq(bytes, 1, 4) = <<8, 1, 18, 4>>
       /\ SubSeq(bytes, 7, 8) = Public(SubSeq(bytes, 5, 6))
    THEN Some(SubSeq(bytes, 5, 6))
    ELSE None

(***************************************************************************)
(* base64, standard alphabet, padded (GeneralPurpose::new(&STANDARD, PAD)).*)
(* A character of the text is the index of its symbol in the alphabet      *)
(* (0..63), PadChar for '=' and BadChar for any symbol outside it.         *)
(***************************************************************************)
PadChar == 64
BadChar == 65

\* encode as the unpadded engine (NO_PAD) would do it
RECURSIVE encode_NoPad(_)
encode_NoPad(bs) ==
    IF Len(bs) = 0 THEN <<>>
    ELSE IF Len(bs) = 1
        THEN <<bs[1] \div 4, (bs[1] % 4) * 16>>
    ELSE IF Len(bs) = 2
        THEN <<bs[1] \div 4, (bs[1] % 4) * 16 + bs[2] \div 16, (bs[2] % 16) * 4>>
    ELSE <<bs[1] \div 4, (bs[1] % 4) * 16 + bs[2] \div 16,
           (bs[2] % 16) * 4 + bs[3] \div 64, bs[3] % 64>>
         \o encode_NoPad(SubSeq(bs, 4, Len(bs)))

RECURSIVE encode(_)
encode(bs) ==
    IF Len(bs) = 0 THEN <<>>
    ELSE IF Len(bs) = 1
        THEN <<bs[1] \div 4, (bs[1] % 4) * 16, PadChar, PadChar>>
    ELSE IF Len(bs) = 2
        THEN <<bs[1] \div 4, (bs[1] % 4) * 16 + bs[2] \div 16, (bs[2] % 16) * 4, PadChar>>
    ELSE <<bs[1] \div 4, (bs[1] % 4) * 16 + bs[2] \div 16,
           (bs[2] % 16) * 4 + bs[3] \div 64, bs[3] % 64>>
         \o encode(SubSeq(bs, 4, Len(bs)))

IsSym(c) == c \in 0..63

\* the bytes of one group of four characters, None when the group is malformed
\* (a symbol outside the alphabet, padding inside the text, non-zero trailing bits)
decode_quad(q, last) ==
    IF IsSym(q[1]) /\ IsSym(q[2]) /\ IsSym(q[3]) /\ IsSym(q[4])
        THEN Some(<<q[1] * 4 + q[2] \div 16, (q[2] % 16) * 16 + q[3] \div 4, (q[3] % 4) * 64 + q[4]>>)
    ELSE IF last /\ IsSym(q[1]) /\ IsSym(q[2]) /\ IsSym(q[3]) /\ q[4] = PadChar /\ q[3] % 4 = 0
        THEN Some(<<q[1] * 4 + q[2] \div 16, (q[2] % 16) * 16 + q[3] \div 4>>)
    ELSE IF last /\ IsSym(q[1]) /\ IsSym(q[2]) /\ q[3] = PadChar /\ q[4] = PadChar /\ q[2] % 16 = 0
        THEN Some(<<q[1] * 4 + q[2] \div 16>>)
    ELSE None

\* Result<Vec<u8>, DecodeError>: Some(bytes) or None
RECURSIVE decode(_)
decode(cs) ==
    IF Len(cs) = 0 THEN Some(<<>>)
    ELSE IF Len(cs) < 4 THEN None
    ELSE LET head == decode_quad(SubSeq(cs, 1, 4), Len(cs) = 4)
             rest == decode(SubSeq(cs, 5, Len(cs)))
         IN  IF head = None \/ rest = None THEN None
             ELSE Some(Unwrap(head) \o Unwrap(rest))

(***************************************************************************)
(* The file system: the one file at the keypair path.  None: no file is    *)
(* there; Some(text): a file with that text.                               *)
(***************************************************************************)
InitialFiles ==
    {None}
    \cup {Some(encode(to_protobuf_encoding(k))) : k \in Keys}
    \cup {Some(<<1, 2, BadChar, 3>>)}                  \* not base64
    \cup {Some(encode(<<8, 1, 18, 4, 7, 200, 0, 0>>))} \* base64 of bytes that are no keypair

(***************************************************************************)
(* The external config (mod config, IpfsConfig): what IpfsConfig::load     *)
(* and config.identity.keypair() give for the file at opt.config.          *)
(***************************************************************************)
ConfigFiles ==
    {[load |-> "Err", identity |-> None]}
    \cup {[load |-> "Ok", identity |-> None]}
    \cup {[load |-> "Ok", identity |-> Some(k)] : k \in Keys}

(***************************************************************************)
(* Options (clap): the parsed command line.  Addresses are opaque, an      *)
(* address is named by its position in its list.                           *)
(***************************************************************************)
AddrList(n) == [i \in 1..n |-> i]

Commands ==
    {"Id", "Add", "Ls", "Cat", "Get", "DagGet", "DagPut", "Findpeer", "Findprovs",
     "Gc", "PinAdd", "PinLs", "PinRm"}

AllOptions ==
    [config    : {None} \cup {Some(c) : c \in ConfigFiles},
     keypair   : BOOLEAN,
     relays    : {AddrList(n) : n \in 0..MaxRelays},
     bootstraps: {AddrList(n) : n \in 0..MaxBootstraps},
     command   : {None} \cup {Some(c) : c \in Commands}]

\* The command lines of the model: the three groups of options (identity,
\* network, command) are independent of each other in main, and at least one
\* group is left at its default.
Options ==
    {o \in AllOptions :
        \/ o.config = None /\ ~o.keypair
        \/ o.relays = <<>> /\ o.bootstraps = <<>>
        \/ o.command = None}

\* The command lines of a second run: what it does with the keypair file
RerunOptions ==
    {o \in AllOptions : o.relays = <<>> /\ o.bootstraps = <<>> /\ o.command = None}

\* ipfs.default_bootstrap(): the well-known bootstrap peers
DefaultBootstrap == {<<"default", 1>>, <<"default", 2>>}

\* HashMap::new(), a map with no key
EmptyMap == [c \in {} |-> "p1"]

VARIABLES
    run,            \* "first" or "second" run of the program on this file system
    opt,            \* the parsed Options
    pc,             \* where main is
    keypair,        \* main's `keypair: Option<Keypair>`
    file,           \* the file at the keypair path
    file0,          \* the file at the keypair path when this run began
    fsOps,          \* this run's file-system calls on the keypair path, in order
    generated,      \* the keypair Keypair::generate_ed25519 returned in this run
    persisted,      \* the keypair an earlier run generated and wrote to the file
    uninitialized,  \* the UninitializedIpfs builder: what main configured
    calls,          \* this run's awaited calls of the node service (and of the signal
                    \* handler), in order, with their outcome
    listening,      \* the circuit-relay addresses the node listens on
    bootstraps,     \* the node's bootstrap peer set
    i,              \* the index of the running `for` loop / the next call of the dispatcher
    arguments,      \* the invocations of arguments::arguments: "running" or what it returned
    pulled,         \* what stream.next().await returned so far, in order
    size_set,       \* Get's `size_set`
    output,         \* what was printed / rendered, in order
    result,         \* what main returned: "running", "Ok", "Err" or "panic"
    err,            \* the call whose error main returned
    listener_addrs, \* ext_behaviour::Behaviour.listener_addrs
    connections,    \* ext_behaviour::Behaviour.connections: ConnectionId -> PeerId
    events,         \* the swarm events on_swarm_event was called with, in order
    printed,        \* what on_swarm_event printed, in order
    panicked        \* an assertion of on_swarm_event failed

vars == <<run, opt, pc, keypair, file, file0, fsOps, generated, persisted, uninitialized,
          calls, listening, bootstraps, i, arguments, pulled, size_set, output,
          result, err, listener_addrs, connections, events, printed, panicked>>

swarmVars == <<listener_addrs, connections, events, printed, panicked>>

idVars == <<keypair, file, file0, fsOps, generated>>
cmdVars == <<arguments, pulled, size_set>>
nodeVars == <<uninitialized, calls, listening, bootstraps, i, output, arguments, pulled, size_set>>

NoBuilder == [keypair |-> None, relay_server |-> FALSE, built |-> FALSE]

Init ==
    /\ run = "first"
    /\ opt \in Options
    /\ pc = "config"
    /\ keypair = None
    /\ file \in (IF opt.keypair THEN InitialFiles ELSE {None})
    /\ file0 = file
    /\ fsOps = <<>>
    /\ generated = None
    /\ persisted = None
    /\ uninitialized = NoBuilder
    /\ calls = <<>>
    /\ listening = <<>>
    /\ bootstraps = {}
    /\ i = 1
    /\ arguments = <<>>
    /\ pulled = <<>>
    /\ size_set = FALSE
    /\ output = <<>>
    /\ result = "running"
    /\ err = "none"
    /\ listener_addrs = {}
    /\ connections = EmptyMap
    /\ events = <<>>
    /\ printed = <<>>
    /\ panicked = FALSE

\* `?` on an Err: main returns the error
Fail(call) ==
    /\ pc' = "exited"
    /\ result' = "Err"
    /\ err' = call

Continue(to) ==
    /\ pc' = to
    /\ UNCHANGED <<result, err>>

Call(op, arg, ok) == [op |-> op, arg |-> arg, ok |-> ok]

\* relay.with(Protocol::P2pCircuit): the relay address with one more segment
P2pCircuit(relay) == <<relay, "p2p-circuit">>

\* LoadConfig as it would be with `?` on config.identity.keypair(): a config
\* whose identity cannot be parsed ends main
LoadConfig_Strict ==
    /\ pc = "config"
    /\ IF opt.config = None
       THEN /\ Continue("keypair")
            /\ UNCHANGED keypair
       ELSE IF Unwrap(opt.config).load = "Err"
       THEN /\ Fail("IpfsConfig::load")
            /\ UNCHANGED keypair
       ELSE IF Unwrap(opt.config).identity = None
       THEN /\ Fail("identity.keypair")
            /\ UNCHANGED keypair
       ELSE /\ keypair' = Unwrap(opt.config).identity
            /\ Continue("keypair")
    /\ UNCHANGED swarmVars
    /\ UNCHANGED <<run, opt, file, file0, fsOps, generated, persisted>>
    /\ UNCHANGED nodeVars

\* main.rs 55-58: if let Some(path) = opt.config
LoadConfig ==
    /\ pc = "config"
    /\ IF opt.config = None
       THEN /\ Continue("keypair")
            /\ UNCHANGED keypair
       ELSE IF Unwrap(opt.config).load = "Err"
       THEN /\ Fail("IpfsConfig::load")
            /\ UNCHANGED keypair
       ELSE /\ keypair' = Unwrap(opt.config).identity
            /\ Continue("keypair")
    /\ UNCHANGED swarmVars
    /\ UNCHANGED <<run, opt, file, file0, fsOps, generated, persisted>>
    /\ UNCHANGED nodeVars

\* main.rs 60-61, 74-75: the keypair is known, or no keypair path was given
SkipKeypairFile ==
    /\ pc = "keypair"
    /\ keypair # None \/ ~opt.keypair
    /\ Continue("configure")
    /\ UNCHANGED swarmVars
    /\ UNCHANGED <<run, opt, persisted>>
    /\ UNCHANGED idVars
    /\ UNCHANGED nodeVars

\* ReadKeypairFile as it would be without the `if keypair.is_none()` of main.rs 60:
\* an existing keypair file is read whatever the config gave
ReadKeypairFile_Always ==
    /\ pc = "keypair"
    /\ opt.keypair
    /\ file # None
    /\ fsOps' = fsOps \o <<"is_file", "read_to_string">>
    /\ \E read_ok \in BOOLEAN :
        IF ~read_ok
        THEN /\ Fail("fs::read_to_string")
             /\ UNCHANGED keypair
        ELSE LET bytes == decode(Unwrap(file))
             IN  IF bytes = None
                 THEN /\ Fail("base64::decode")
                      /\ UNCHANGED keypair
                 ELSE /\ keypair' = from_protobuf_encoding(Unwrap(bytes))
                      /\ Continue("configure")
    /\ UNCHANGED swarmVars
    /\ UNCHANGED <<run, opt, file, file0, generated, persisted>>
    /\ UNCHANGED nodeVars

\* main.rs 62-66: path.is_file(): read, decode, parse
ReadKeypairFile ==
    /\ pc = "keypair"
    /\ keypair = None /\ opt.keypair
    /\ file # None
    /\ fsOps' = fsOps \o <<"is_file", "read_to_string">>
    /\ \E read_ok \in BOOLEAN :
        IF ~read_ok
        THEN /\ Fail("fs::read_to_string")
             /\ UNCHANGED keypair
        ELSE LET bytes == decode(Unwrap(file))
             IN  IF bytes = None
                 THEN /\ Fail("base64::decode")
                      /\ UNCHANGED keypair
                 ELSE /\ keypair' = from_protobuf_encoding(Unwrap(bytes))
                      /\ Continue("configure")
    /\ UNCHANGED swarmVars
    /\ UNCHANGED <<run, opt, file, file0, generated, persisted>>
    /\ UNCHANGED nodeVars

\* GenerateKeypairFile as it would be without the `path.is_file()` test of
\* main.rs 62: a keypair is generated and written over whatever is at the path
GenerateKeypairFile_Overwrite ==
    /\ pc = "keypair"
    /\ keypair = None /\ opt.keypair
    /\ fsOps' = fsOps \o <<"is_file", "write">>
    /\ \E kp \in Keys :
        /\ generated' = Some(kp)
        /\ file' = Some(encode(to_protobuf_encoding(kp)))
        /\ keypair' = Some(kp)
        /\ Continue("configure")
    /\ UNCHANGED swarmVars
    /\ UNCHANGED <<run, opt, file0, persisted>>
    /\ UNCHANGED nodeVars

\* main.rs 67-73: no file at the path: generate, encode, write
GenerateKeypairFile ==
    /\ pc = "keypair"
    /\ keypair = None /\ opt.keypair
    /\ file = None
    /\ fsOps' = fsOps \o <<"is_file", "write">>
    /\ \E kp \in Keys, write_ok \in BOOLEAN :
        /\ generated' = Some(kp)
        /\ IF write_ok
           THEN /\ file' = Some(encode(to_protobuf_encoding(kp)))
                /\ keypair' = Some(kp)
                /\ Continue("configure")
           ELSE /\ Fail("fs::write")
                /\ UNCHANGED <<file, keypair>>
    /\ UNCHANGED swarmVars
    /\ UNCHANGED <<run, opt, file0, persisted>>
    /\ UNCHANGED nodeVars

\* Configure as it would be with with_relay_server called unconditionally
Configure_AlwaysRelayServer ==
    /\ pc = "configure"
    /\ uninitialized' = [keypair      |-> keypair,
                         relay_server |-> TRUE,
                         built        |-> TRUE]
    /\ Continue("start")
    /\ UNCHANGED swarmVars
    /\ UNCHANGED <<run, opt, persisted, calls, listening, bootstraps, i, output>>
    /\ UNCHANGED cmdVars
    /\ UNCHANGED idVars

\* main.rs 77-98: the builder
Configure ==
    /\ pc = "configure"
    /\ uninitialized' = [keypair      |-> keypair,
                         relay_server |-> (opt.relays = <<>>),
                         built        |-> TRUE]
    /\ Continue("start")
    /\ UNCHANGED swarmVars
    /\ UNCHANGED <<run, opt, persisted, calls, listening, bootstraps, i, output>>
    /\ UNCHANGED cmdVars
    /\ UNCHANGED idVars

\* Start as it would be if a failed start did not end main
Start_Lenient ==
    /\ pc = "start"
    /\ \E ok \in BOOLEAN :
        /\ calls' = Append(calls, Call("start", 0, ok))
        /\ Continue("relays")
    /\ i' = 1
    /\ UNCHANGED swarmVars
    /\ UNCHANGED <<run, opt, persisted, uninitialized, listening, bootstraps, output>>
    /\ UNCHANGED cmdVars
    /\ UNCHANGED idVars

\* main.rs 100: uninitialized.start().await?
Start ==
    /\ pc = "start"
    /\ \E ok \in BOOLEAN :
        /\ calls' = Append(calls, Call("start", 0, ok))
        /\ IF ok THEN Continue("relays") ELSE Fail("start")
    /\ i' = 1
    /\ UNCHANGED swarmVars
    /\ UNCHANGED <<run, opt, persisted, uninitialized, listening, bootstraps, output>>
    /\ UNCHANGED cmdVars
    /\ UNCHANGED idVars

\* RelayListen as it would be with `break` in place of `continue` (main.rs 109)
RelayListen_Break ==
    /\ pc = "relays"
    /\ i <= Len(opt.relays)
    /\ \E ok \in BOOLEAN :
        /\ calls' = Append(calls, Call("add_listening_address", P2pCircuit(opt.relays[i]), ok))
        /\ IF ok
           THEN /\ listening' = Append(listening, P2pCircuit(opt.relays[i]))
                /\ i' = i + 1
                /\ UNCHANGED output
           ELSE /\ output' = Append(output, <<"Error listening on relay circuit", opt.relays[i]>>)
                /\ i' = Len(opt.relays) + 1
                /\ UNCHANGED listening
    /\ Continue("relays")
    /\ UNCHANGED swarmVars
    /\ UNCHANGED <<run, opt, persisted, uninitialized, bootstraps>>
    /\ UNCHANGED cmdVars
    /\ UNCHANGED idVars

\* RelayListen as it would be if the circuit address counted as registered
\* whatever add_listening_address returned
RelayListen_Unchecked ==
    /\ pc = "relays"
    /\ i <= Len(opt.relays)
    /\ \E ok \in BOOLEAN :
        /\ calls' = Append(calls, Call("add_listening_address", P2pCircuit(opt.relays[i]), ok))
        /\ listening' = Append(listening, P2pCircuit(opt.relays[i]))
        /\ IF ok
           THEN UNCHANGED output
           ELSE output' = Append(output, <<"Error listening on relay circuit", opt.relays[i]>>)
    /\ i' = i + 1
    /\ Continue("relays")
    /\ UNCHANGED swarmVars
    /\ UNCHANGED <<run, opt, persisted, uninitialized, bootstraps>>
    /\ UNCHANGED cmdVars
    /\ UNCHANGED idVars

\* main.rs 102-111: one turn of `for relay in opt.relays`
RelayListen ==
    /\ pc = "relays"
    /\ i <= Len(opt.relays)
    /\ \E ok \in BOOLEAN :
        /\ calls' = Append(calls, Call("add_listening_address", P2pCircuit(opt.relays[i]), ok))
        /\ IF ok
           THEN /\ listening' = Append(listening, P2pCircuit(opt.relays[i]))
                /\ UNCHANGED output
           ELSE /\ output' = Append(output, <<"Error listening on relay circuit", opt.relays[i]>>)
                /\ UNCHANGED listening
    /\ i' = i + 1
    /\ Continue("relays")
    /\ UNCHANGED swarmVars
    /\ UNCHANGED <<run, opt, persisted, uninitialized, bootstraps>>
    /\ UNCHANGED cmdVars
    /\ UNCHANGED idVars

\* main.rs 102, 112: the relays are done (or there is none)
RelaysDone ==
    /\ pc = "relays"
    /\ i > Len(opt.relays)
    /\ i' = 1
    /\ Continue("bootstraps")
    /\ UNCHANGED swarmVars
    /\ UNCHANGED <<run, opt, persisted, uninitialized, calls, listening, bootstraps, output>>
    /\ UNCHANGED cmdVars
    /\ UNCHANGED idVars

\* DefaultBootstrapNodes as it would be without the match on
\* opt.bootstraps.is_empty() (main.rs 113): the default set whatever was given
DefaultBootstrapNodes_Always ==
    /\ pc = "bootstraps"
    /\ i = 1
    /\ \E ok \in BOOLEAN :
        /\ calls' = Append(calls, Call("default_bootstrap", 0, ok))
        /\ IF ok
           THEN /\ bootstraps' = bootstraps \cup DefaultBootstrap
                /\ Continue("get_bootstraps")
           ELSE /\ UNCHANGED bootstraps
                /\ Fail("default_bootstrap")
    /\ UNCHANGED swarmVars
    /\ UNCHANGED <<run, opt, persisted, uninitialized, listening, i, output>>
    /\ UNCHANGED cmdVars
    /\ UNCHANGED idVars

\* main.rs 113-116: no bootstrap address given: ipfs.default_bootstrap().await?
DefaultBootstrapNodes ==
    /\ pc = "bootstraps"
    /\ opt.bootstraps = <<>>
    /\ \E ok \in BOOLEAN :
        /\ calls' = Append(calls, Call("default_bootstrap", 0, ok))
        /\ IF ok
           THEN /\ bootstraps' = bootstraps \cup DefaultBootstrap
                /\ Continue("get_bootstraps")
           ELSE /\ UNCHANGED bootstraps
                /\ Fail("default_bootstrap")
    /\ UNCHANGED swarmVars
    /\ UNCHANGED <<run, opt, persisted, uninitialized, listening, i, output>>
    /\ UNCHANGED cmdVars
    /\ UNCHANGED idVars

\* main.rs 117-121: one turn of `for addr in opt.bootstraps`: add_bootstrap(addr).await?
AddBootstrap ==
    /\ pc = "bootstraps"
    /\ opt.bootstraps # <<>>
    /\ i <= Len(opt.bootstraps)
    /\ \E ok \in BOOLEAN :
        /\ calls' = Append(calls, Call("add_bootstrap", opt.bootstraps[i], ok))
        /\ IF ok
           THEN /\ bootstraps' = bootstraps \cup {<<"addr", opt.bootstraps[i]>>}
                /\ Continue("bootstraps")
           ELSE /\ UNCHANGED bootstraps
                /\ Fail("add_bootstrap")
    /\ i' = i + 1
    /\ UNCHANGED swarmVars
    /\ UNCHANGED <<run, opt, persisted, uninitialized, listening, output>>
    /\ UNCHANGED cmdVars
    /\ UNCHANGED idVars

\* main.rs 118, 121: every given bootstrap address was added
AddBootstrapDone ==
    /\ pc = "bootstraps"
    /\ opt.bootstraps # <<>>
    /\ i > Len(opt.bootstraps)
    /\ Continue("get_bootstraps")
    /\ UNCHANGED swarmVars
    /\ UNCHANGED <<run, opt, persisted>>
    /\ UNCHANGED nodeVars
    /\ UNCHANGED idVars

\* GetBootstraps as it would be with bootstrap spawned as a detached task:
\* main goes on to the command without awaiting the attempt
GetBootstraps_Spawn ==
    /\ pc = "get_bootstraps"
    /\ \E ok \in BOOLEAN :
        /\ calls' = Append(calls, Call("get_bootstraps", 0, ok))
        /\ IF ~ok THEN Fail("get_bootstraps") ELSE Continue("command")
    /\ UNCHANGED swarmVars
    /\ UNCHANGED <<run, opt, persisted, uninitialized, listening, bootstraps, i, output>>
    /\ UNCHANGED cmdVars
    /\ UNCHANGED idVars

\* main.rs 124: ipfs.get_bootstraps().await?.is_empty()
GetBootstraps ==
    /\ pc = "get_bootstraps"
    /\ \E ok \in BOOLEAN :
        /\ calls' = Append(calls, Call("get_bootstraps", 0, ok))
        /\ IF ~ok THEN Fail("get_bootstraps")
           ELSE IF bootstraps # {} THEN Continue("bootstrap")
           ELSE Continue("command")
    /\ UNCHANGED swarmVars
    /\ UNCHANGED <<run, opt, persisted, uninitialized, listening, bootstraps, i, output>>
    /\ UNCHANGED cmdVars
    /\ UNCHANGED idVars

\* Bootstrap as it would be inside a loop: after an attempt, another one
Bootstrap_Loop ==
    /\ pc = "bootstrap"
    /\ \E ok \in BOOLEAN :
        /\ calls' = Append(calls, Call("bootstrap", 0, ok))
        /\ IF ok THEN Continue("bootstrap") ELSE Fail("bootstrap")
    /\ UNCHANGED swarmVars
    /\ UNCHANGED <<run, opt, persisted, uninitialized, listening, bootstraps, i, output>>
    /\ UNCHANGED cmdVars
    /\ UNCHANGED idVars

\* Bootstrap as a detached task would leave main: a failed attempt is not main's error
Bootstrap_IgnoreError ==
    /\ pc = "bootstrap"
    /\ \E ok \in BOOLEAN :
        /\ calls' = Append(calls, Call("bootstrap", 0, ok))
        /\ Continue("command")
    /\ UNCHANGED swarmVars
    /\ UNCHANGED <<run, opt, persisted, uninitialized, listening, bootstraps, i, output>>
    /\ UNCHANGED cmdVars
    /\ UNCHANGED idVars

\* main.rs 125: ipfs.bootstrap().await?
Bootstrap ==
    /\ pc = "bootstrap"
    /\ \E ok \in BOOLEAN :
        /\ calls' = Append(calls, Call("bootstrap", 0, ok))
        /\ IF ok THEN Continue("command") ELSE Fail("bootstrap")
    /\ UNCHANGED swarmVars
    /\ UNCHANGED <<run, opt, persisted, uninitialized, listening, bootstraps, i, output>>
    /\ UNCHANGED cmdVars
    /\ UNCHANGED idVars

\* main.rs 128, 130: no command: tokio::signal::ctrl_c().await? waits for the signal
WaitCtrlC ==
    /\ pc = "command"
    /\ opt.command = None
    /\ Continue("ctrl_c")
    /\ UNCHANGED swarmVars
    /\ UNCHANGED <<run, opt, persisted>>
    /\ UNCHANGED nodeVars
    /\ UNCHANGED idVars

\* main.rs 130: the interrupt signal arrives (or waiting for it fails)
CtrlC ==
    /\ pc = "ctrl_c"
    /\ \E ok \in BOOLEAN :
        /\ calls' = Append(calls, Call("ctrl_c", 0, ok))
        /\ IF ok THEN Continue("exit_daemon") ELSE Fail("ctrl_c")
    /\ UNCHANGED swarmVars
    /\ UNCHANGED <<run, opt, persisted, uninitialized, listening, bootstraps, i, output>>
    /\ UNCHANGED cmdVars
    /\ UNCHANGED idVars

\* main.rs 133-134: ipfs.exit_daemon().await; Ok(())
ExitDaemon ==
    /\ pc = "exit_daemon"
    /\ calls' = Append(calls, Call("exit_daemon", 0, TRUE))
    /\ pc' = "exited"
    /\ result' = "Ok"
    /\ UNCHANGED err
    /\ UNCHANGED swarmVars
    /\ UNCHANGED <<run, opt, persisted, uninitialized, listening, bootstraps, i, output>>
    /\ UNCHANGED cmdVars
    /\ UNCHANGED idVars

(***************************************************************************)
(* arguments::arguments, the command dispatcher (arguments.rs 114-300).    *)
(***************************************************************************)
Command == Unwrap(opt.command)

\* the calls a command makes with `?`, in order, before it prints or streams
Steps(cmd) ==
    CASE cmd = "Id"        -> <<"identity">>
      [] cmd = "Add"       -> <<"fs::metadata", "add_file_unixfs">>
      [] cmd = "Ls"        -> <<"ls_unixfs">>
      [] cmd = "Cat"       -> <<"cat_unixfs">>
      [] cmd = "Get"       -> <<"get_unixfs">>
      [] cmd = "DagGet"    -> <<"get_dag", "DagJsonCodec.encode">>
      [] cmd = "DagPut"    -> <<"to_ipld", "put_dag">>
      [] cmd = "Findpeer"  -> <<"find_peer">>
      [] cmd = "Findprovs" -> <<"get_providers">>
      [] cmd = "Gc"        -> <<"gc">>
      [] cmd = "PinAdd"    -> <<"insert_pin">>
      [] cmd = "PinLs"     -> <<>>
      [] cmd = "PinRm"     -> <<"remove_pin">>

Streaming == {"Add", "Ls", "Cat", "Get", "Findprovs", "PinLs"}

\* arguments returns Err(e) and main's `?` (main.rs 129) returns it
ReturnErr(call) ==
    /\ arguments' = <<"Err">>
    /\ Fail(call)

\* arguments returns Ok(()) (arguments.rs 299); main goes on to main.rs 133
ReturnOk ==
    /\ arguments' = <<"Ok">>
    /\ Continue("exit_daemon")

\* one more stream.next().await: Some(item) of one of the kinds, or None
NextItems(kinds) ==
    {None} \cup
    (IF Len(pulled) < MaxStream THEN {Some(<<k, Len(pulled) + 1>>) : k \in kinds} ELSE {})

Kind(item) == Unwrap(item)[1]

Render(line) == output' = Append(output, line)

\* main.rs 128-129: Some(command) => arguments::arguments(&ipfs, command).await
\* arguments.rs 184-194: Get works out the local file name first
InvokeArguments ==
    /\ pc = "command"
    /\ opt.command # None
    /\ i' = 1
    /\ pulled' = <<>>
    /\ size_set' = FALSE
    /\ \E target \in {"local", "last segment", "root cid", "no cid"} :
        IF Command = "Get" /\ target = "no cid"
        THEN /\ arguments' = Append(arguments, "panic")
             /\ pc' = "exited"
             /\ result' = "panic"
             /\ err' = "Invalid path"
        ELSE /\ arguments' = Append(arguments, "running")
             /\ Continue("dispatch")
    /\ UNCHANGED swarmVars
    /\ UNCHANGED <<run, opt, persisted, uninitialized, calls, listening, bootstraps, output>>
    /\ UNCHANGED idVars

\* OperationCall as it would be with the error printed in place of `?`
OperationCall_Swallow ==
    /\ pc = "dispatch"
    /\ i <= Len(Steps(Command))
    /\ \E ok \in BOOLEAN :
        /\ calls' = Append(calls, Call(Steps(Command)[i], 0, ok))
        /\ IF ok
           THEN /\ Continue("dispatch")
                /\ UNCHANGED <<arguments, output>>
           ELSE /\ Render(<<"Error", 0>>)
                /\ ReturnOk
    /\ i' = i + 1
    /\ UNCHANGED swarmVars
    /\ UNCHANGED <<run, opt, persisted, uninitialized, listening, bootstraps, pulled, size_set>>
    /\ UNCHANGED idVars

\* the next `.await?` call of the command (arguments.rs 118, 134, 138, 155, 169,
\* 199, 229-230, 235-236, 243, 249, 257, 265, 293)
OperationCall ==
    /\ pc = "dispatch"
    /\ i <= Len(Steps(Command))
    /\ \E ok \in BOOLEAN :
        /\ calls' = Append(calls, Call(Steps(Command)[i], 0, ok))
        /\ IF ok
           THEN /\ Continue("dispatch")
                /\ UNCHANGED arguments
           ELSE ReturnErr(Steps(Command)[i])
    /\ i' = i + 1
    /\ UNCHANGED swarmVars
    /\ UNCHANGED <<run, opt, persisted, uninitialized, listening, bootstraps, pulled,
                   size_set, output>>
    /\ UNCHANGED idVars

\* the command has its result: a command without a stream prints it and returns
\* (arguments.rs 119-131, 231, 237, 244-246, 258-260, 266-269, 294)
PrintResult ==
    /\ pc = "dispatch"
    /\ i > Len(Steps(Command))
    /\ Command \notin Streaming
    /\ \E recursive \in BOOLEAN :
        Render(<<Command, IF Command = "PinAdd" /\ recursive THEN 1 ELSE 0>>)
    /\ ReturnOk
    /\ UNCHANGED swarmVars
    /\ UNCHANGED <<run, opt, persisted, uninitialized, calls, listening, bootstraps, i,
                   pulled, size_set>>
    /\ UNCHANGED idVars

\* the command has its stream (arguments.rs 138, 155, 169, 199, 249, 272-286)
OpenStream ==
    /\ pc = "dispatch"
    /\ i > Len(Steps(Command))
    /\ Command \in Streaming
    /\ IF Command = "PinLs"
       THEN calls' = Append(calls, Call("list_pins", 0, TRUE))
       ELSE UNCHANGED calls
    /\ Continue("stream")
    /\ UNCHANGED swarmVars
    /\ UNCHANGED <<run, opt, persisted, uninitialized, listening, bootstraps, i, output>>
    /\ UNCHANGED cmdVars
    /\ UNCHANGED idVars

\* arguments.rs 140-152: Add's `while let Some(status) = status.next().await`
AddStatus ==
    /\ pc = "stream"
    /\ Command = "Add"
    /\ \E item \in NextItems({"Progress", "Completed", "Failed"}) :
        /\ pulled' = Append(pulled, item)
        /\ IF item = None
           THEN /\ ReturnOk
                /\ UNCHANGED output
           ELSE /\ Render(<<Kind(item), Len(pulled) + 1>>)
                /\ Continue("stream")
                /\ UNCHANGED arguments
    /\ UNCHANGED swarmVars
    /\ UNCHANGED <<run, opt, persisted, uninitialized, calls, listening, bootstraps, i, size_set>>
    /\ UNCHANGED idVars

\* Ls's loop without the break of arguments.rs 163
LsItem_NoBreak ==
    /\ pc = "stream"
    /\ Command = "Ls"
    /\ \E item \in NextItems({"Directory", "RootDirectory", "File", "Error"}) :
        /\ pulled' = Append(pulled, item)
        /\ IF item = None
           THEN /\ ReturnOk
                /\ UNCHANGED output
           ELSE IF Kind(item) = "Error"
           THEN /\ Render(<<"Error listening item", Len(pulled) + 1>>)
                /\ Continue("stream")
                /\ UNCHANGED arguments
           ELSE IF Kind(item) = "File"
           THEN /\ Render(<<"File", Len(pulled) + 1>>)
                /\ Continue("stream")
                /\ UNCHANGED arguments
           ELSE /\ Continue("stream")
                /\ UNCHANGED <<arguments, output>>
    /\ UNCHANGED swarmVars
    /\ UNCHANGED <<run, opt, persisted, uninitialized, calls, listening, bootstraps, i, size_set>>
    /\ UNCHANGED idVars

\* arguments.rs 157-166: Ls's loop
LsItem ==
    /\ pc = "stream"
    /\ Command = "Ls"
    /\ \E item \in NextItems({"Directory", "RootDirectory", "File", "Error"}) :
        /\ pulled' = Append(pulled, item)
        /\ IF item = None
           THEN /\ ReturnOk
                /\ UNCHANGED output
           ELSE IF Kind(item) = "Error"
           THEN /\ Render(<<"Error listening item", Len(pulled) + 1>>)
                /\ ReturnOk
           ELSE IF Kind(item) = "File"
           THEN /\ Render(<<"File", Len(pulled) + 1>>)
                /\ Continue("stream")
                /\ UNCHANGED arguments
           ELSE /\ Continue("stream")
                /\ UNCHANGED <<arguments, output>>
    /\ UNCHANGED swarmVars
    /\ UNCHANGED <<run, opt, persisted, uninitialized, calls, listening, bootstraps, i, size_set>>
    /\ UNCHANGED idVars

\* arguments.rs 172-182: Cat's loop
CatChunk ==
    /\ pc = "stream"
    /\ Command = "Cat"
    /\ \E item \in NextItems({"Ok", "Err"}), write_ok \in BOOLEAN :
        /\ pulled' = Append(pulled, item)
        /\ IF item = None
           THEN /\ write_ok
                /\ ReturnOk
                /\ UNCHANGED <<output, calls>>
           ELSE IF Kind(item) = "Err"
           THEN /\ write_ok
                /\ Render(<<"Error", Len(pulled) + 1>>)
                /\ ReturnOk
                /\ UNCHANGED calls
           ELSE /\ calls' = Append(calls, Call("stdout.write_all", 0, write_ok))
                /\ IF write_ok
                   THEN /\ Render(<<"bytes", Len(pulled) + 1>>)
                        /\ Continue("stream")
                        /\ UNCHANGED arguments
                   ELSE /\ ReturnErr("stdout.write_all")
                        /\ UNCHANGED output
    /\ UNCHANGED swarmVars
    /\ UNCHANGED <<run, opt, persisted, uninitialized, listening, bootstraps, i, size_set>>
    /\ UNCHANGED idVars

\* arguments.rs 203-224: Get's loop
GetStatus ==
    /\ pc = "stream"
    /\ Command = "Get"
    /\ \E item \in NextItems({"Progress", "ProgressTotal", "Completed", "Failed"}) :
        /\ pulled' = Append(pulled, item)
        /\ IF item = None
           THEN /\ ReturnOk
                /\ UNCHANGED <<output, size_set>>
           ELSE IF Kind(item) = "ProgressTotal" /\ ~size_set
           THEN /\ size_set' = TRUE
                /\ output' = output \o <<<<"set_length", Len(pulled) + 1>>,
                                         <<"Progress", Len(pulled) + 1>>>>
                /\ Continue("stream")
                /\ UNCHANGED arguments
           ELSE /\ Render(<<IF Kind(item) = "ProgressTotal" THEN "Progress" ELSE Kind(item),
                            Len(pulled) + 1>>)
                /\ Continue("stream")
                /\ UNCHANGED <<arguments, size_set>>
    /\ UNCHANGED swarmVars
    /\ UNCHANGED <<run, opt, persisted, uninitialized, calls, listening, bootstraps, i>>
    /\ UNCHANGED idVars

\* arguments.rs 250-252: Findprovs's loop
FindprovsItem ==
    /\ pc = "stream"
    /\ Command = "Findprovs"
    /\ \E item \in NextItems({"provider"}) :
        /\ pulled' = Append(pulled, item)
        /\ IF item = None
           THEN /\ ReturnOk
                /\ UNCHANGED output
           ELSE /\ Render(<<"provider", Len(pulled) + 1>>)
                /\ Continue("stream")
                /\ UNCHANGED arguments
    /\ UNCHANGED swarmVars
    /\ UNCHANGED <<run, opt, persisted, uninitialized, calls, listening, bootstraps, i, size_set>>
    /\ UNCHANGED idVars

\* arguments.rs 279-283: the label of a pin mode
ModeLabel(mode) ==
    CASE mode = "Direct"    -> "direct"
      [] mode = "Indirect"  -> "indirect"
      [] mode = "Recursive" -> "recursive"

\* PinLs's loop if a pin that failed to resolve ended it
PinLsItem_StopOnErr ==
    /\ pc = "stream"
    /\ Command = "PinLs"
    /\ \E item \in NextItems({"Direct", "Indirect", "Recursive", "Err"}) :
        /\ pulled' = Append(pulled, item)
        /\ IF item = None \/ Kind(item) = "Err"
           THEN /\ ReturnOk
                /\ UNCHANGED output
           ELSE /\ Render(<<ModeLabel(Kind(item)), Len(pulled) + 1>>)
                /\ Continue("stream")
                /\ UNCHANGED arguments
    /\ UNCHANGED swarmVars
    /\ UNCHANGED <<run, opt, persisted, uninitialized, calls, listening, bootstraps, i, size_set>>
    /\ UNCHANGED idVars

\* arguments.rs 272-290: PinLs's loop over the pins that resolved (filter_map(res.ok()))
PinLsItem ==
    /\ pc = "stream"
    /\ Command = "PinLs"
    /\ \E item \in NextItems({"Direct", "Indirect", "Recursive", "Err"}) :
        /\ pulled' = Append(pulled, item)
        /\ IF item = None
           THEN /\ ReturnOk
                /\ UNCHANGED output
           ELSE IF Kind(item) = "Err"
           THEN /\ Continue("stream")
                /\ UNCHANGED <<arguments, output>>
           ELSE /\ Render(<<ModeLabel(Kind(item)), Len(pulled) + 1>>)
                /\ Continue("stream")
                /\ UNCHANGED arguments
    /\ UNCHANGED swarmVars
    /\ UNCHANGED <<run, opt, persisted, uninitialized, calls, listening, bootstraps, i, size_set>>
    /\ UNCHANGED idVars

\* The process has ended; the program is run a second time on the same file system
Restart ==
    /\ pc = "exited"
    /\ run = "first"
    /\ opt.keypair
    /\ run' = "second"
    /\ opt' \in RerunOptions
    /\ persisted' = IF generated # None /\ file # None THEN keypair ELSE None
    /\ pc' = "config"
    /\ keypair' = None
    /\ fsOps' = <<>>
    /\ generated' = None
    /\ uninitialized' = NoBuilder
    /\ calls' = <<>>
    /\ listening' = <<>>
    /\ bootstraps' = {}
    /\ i' = 1
    /\ arguments' = <<>>
    /\ pulled' = <<>>
    /\ size_set' = FALSE
    /\ output' = <<>>
    /\ result' = "running"
    /\ err' = "none"
    /\ file0' = file
    /\ UNCHANGED file
    /\ UNCHANGED swarmVars


(***************************************************************************)
(* ext_behaviour::Behaviour (main.rs 154-247): the network behaviour the   *)
(* node is built with.  The swarm calls on_swarm_event with one event at a *)
(* time; the events are the model's input, any event in any order.         *)
(***************************************************************************)
ConnectionIds == {"c1", "c2"}

PeerIds == {"p1", "p2"}

Multiaddrs == {"a1", "a2"}

FromSwarm(event, connection_id, peer_id, addr) ==
    [event |-> event, connection_id |-> connection_id, peer_id |-> peer_id, addr |-> addr]

\* main.rs 154-158: #[derive(Default)]; main's variables are those of Init
SwarmInit ==
    /\ run = "first"
    /\ opt = CHOOSE o \in Options :
                o.config = None /\ ~o.keypair /\ o.relays = <<>>
                    /\ o.bootstraps = <<>> /\ o.command = None
    /\ pc = "config"
    /\ keypair = None
    /\ file = None
    /\ file0 = None
    /\ fsOps = <<>>
    /\ generated = None
    /\ persisted = None
    /\ uninitialized = NoBuilder
    /\ calls = <<>>
    /\ listening = <<>>
    /\ bootstraps = {}
    /\ i = 1
    /\ arguments = <<>>
    /\ pulled = <<>>
    /\ size_set = FALSE
    /\ output = <<>>
    /\ result = "running"
    /\ err = "none"
    /\ listener_addrs = {}
    /\ connections = EmptyMap
    /\ events = <<>>
    /\ printed = <<>>
    /\ panicked = FALSE

mainVars ==
    <<run, opt, pc, keypair, file, file0, fsOps, generated, persisted, uninitialized,
      calls, listening, bootstraps, i, arguments, pulled, size_set, output, result, err>>

\* on_swarm_event is called with the event: a panic ends the swarm's task
OnSwarmEvent(event) ==
    /\ ~panicked
    /\ Len(events) < MaxEvents
    /\ events' = Append(events, event)
    /\ UNCHANGED mainVars

\* main.rs 213-217: FromSwarm::NewListenAddr
NewListenAddr ==
    \E addr \in Multiaddrs :
        /\ OnSwarmEvent(FromSwarm("NewListenAddr", "-", "-", addr))
        /\ listener_addrs' = listener_addrs \cup {addr}
        /\ IF addr \notin listener_addrs
           THEN printed' = Append(printed, <<"Listening on", addr>>)
           ELSE UNCHANGED printed
        /\ UNCHANGED <<connections, panicked>>

\* main.rs 218-222: FromSwarm::ExternalAddrConfirmed
ExternalAddrConfirmed ==
    \E addr \in Multiaddrs :
        /\ OnSwarmEvent(FromSwarm("ExternalAddrConfirmed", "-", "-", addr))
        /\ listener_addrs' = listener_addrs \cup {addr}
        /\ IF addr \notin listener_addrs
           THEN printed' = Append(printed, <<"Listening on", addr>>)
           ELSE UNCHANGED printed
        /\ UNCHANGED <<connections, panicked>>

\* HashMap::insert(key, value)
Insert(map, key, value) ==
    [k \in DOMAIN map \cup {key} |-> IF k = key THEN value ELSE map[k]]

\* the map after HashMap::remove(&key)
Remove(map, key) == [k \in DOMAIN map \ {key} |-> map[k]]

\* HashMap::len()
MapLen(map) == Cardinality(DOMAIN map)

\* main.rs 223-230: FromSwarm::ConnectionEstablished
ConnectionEstablished ==
    \E connection_id \in ConnectionIds, peer_id \in PeerIds :
        /\ OnSwarmEvent(FromSwarm("ConnectionEstablished", connection_id, peer_id, "-"))
        /\ connections' = Insert(connections, connection_id, peer_id)
        /\ printed' = Append(printed, <<"Connections", MapLen(connections')>>)
        /\ UNCHANGED <<listener_addrs, panicked>>

\* ConnectionClosed as it would be without the remove of main.rs 236
ConnectionClosed_NoRemove ==
    \E connection_id \in ConnectionIds, peer_id \in PeerIds :
        /\ OnSwarmEvent(FromSwarm("ConnectionClosed", connection_id, peer_id, "-"))
        /\ UNCHANGED connections
        /\ IF connection_id \in DOMAIN connections /\ connections[connection_id] # peer_id
           THEN /\ panicked' = TRUE
                /\ UNCHANGED printed
           ELSE /\ printed' = Append(printed, <<"Connections", MapLen(connections')>>)
                /\ UNCHANGED panicked
        /\ UNCHANGED listener_addrs

\* main.rs 231-241: FromSwarm::ConnectionClosed; a failed assert_eq! panics
\* after the remove and before the println!
ConnectionClosed ==
    \E connection_id \in ConnectionIds, peer_id \in PeerIds :
        /\ OnSwarmEvent(FromSwarm("ConnectionClosed", connection_id, peer_id, "-"))
        /\ connections' = Remove(connections, connection_id)
        /\ IF connection_id \in DOMAIN connections /\ connections[connection_id] # peer_id
           THEN /\ panicked' = TRUE
                /\ UNCHANGED printed
           ELSE /\ printed' = Append(printed, <<"Connections", MapLen(connections')>>)
                /\ UNCHANGED panicked
        /\ UNCHANGED listener_addrs

\* main.rs 242: `_ => {}`, any other event
OtherEvent ==
    /\ OnSwarmEvent(FromSwarm("Other", "-", "-", "-"))
    /\ UNCHANGED <<listener_addrs, connections, printed, panicked>>

SwarmNext ==
    \/ NewListenAddr
    \/ ExternalAddrConfirmed
    \/ ConnectionEstablished
    \/ ConnectionClosed
    \/ OtherEvent

SwarmSpec == SwarmInit /\ [][SwarmNext]_vars

Next ==
    \/ LoadConfig
    \/ SkipKeypairFile
    \/ ReadKeypairFile
    \/ GenerateKeypairFile
    \/ Configure
    \/ Start
    \/ RelayListen
    \/ RelaysDone
    \/ DefaultBootstrapNodes
    \/ AddBootstrap
    \/ AddBootstrapDone
    \/ GetBootstraps
    \/ Bootstrap
    \/ WaitCtrlC
    \/ CtrlC
    \/ InvokeArguments
    \/ OperationCall
    \/ PrintResult
    \/ OpenStream
    \/ AddStatus
    \/ LsItem
    \/ CatChunk
    \/ GetStatus
    \/ FindprovsItem
    \/ PinLsItem
    \/ ExitDaemon
    \/ Restart

Spec == Init /\ [][Next]_vars

\* What the runtime does on its own: every step of main but the arrival of the
\* interrupt signal and the user running the program again.
Program ==
    \/ LoadConfig \/ SkipKeypairFile \/ ReadKeypairFile \/ GenerateKeypairFile
    \/ Configure \/ Start \/ RelayListen \/ RelaysDone
    \/ DefaultBootstrapNodes \/ AddBootstrap \/ AddBootstrapDone
    \/ GetBootstraps \/ Bootstrap \/ WaitCtrlC
    \/ InvokeArguments \/ OperationCall \/ PrintResult \/ OpenStream
    \/ AddStatus \/ LsItem \/ CatChunk \/ GetStatus \/ FindprovsItem \/ PinLsItem
    \/ ExitDaemon

FairSpec == Init /\ [][Next]_vars /\ WF_vars(Program)

(***************************************************************************)
(* What the claims speak of.                                               *)
(***************************************************************************)
CallsOf(op) == {j \in 1..Len(calls) : calls[j].op = op}

BootstrapCalls == Cardinality(CallsOf("bootstrap"))

ShutdownRequested == CallsOf("exit_daemon") # {}

Started == \E j \in CallsOf("start") : calls[j].ok

RelayCalls == SelectSeq(calls, LAMBDA c : c.op = "add_listening_address")

\* the calls a command makes with `?`
DispatcherOps ==
    UNION {{Steps(c)[j] : j \in 1..Len(Steps(c))} : c \in Commands} \cup {"stdout.write_all"}

FailedDispatcherCalls == {j \in 1..Len(calls) : calls[j].op \in DispatcherOps /\ ~calls[j].ok}

ErrorKinds == {"Failed", "Error", "Err"}

ErrorItems == {j \in 1..Len(pulled) : pulled[j] # None /\ Kind(pulled[j]) \in ErrorKinds}

Writes == Cardinality({j \in 1..Len(fsOps) : fsOps[j] = "write"})

ConfigIdentity ==
    IF opt.config = None \/ Unwrap(opt.config).load = "Err"
    THEN None
    ELSE Unwrap(opt.config).identity

\* the generate branch of identity resolution (main.rs 67-73)
GenerateBranch ==
    /\ opt.config = None \/ (Unwrap(opt.config).load = "Ok" /\ Unwrap(opt.config).identity = None)
    /\ opt.keypair
    /\ file0 = None

C2_FailedIsTerminal ==
    (opt.command # None /\ Command \in {"Add", "Get"}) =>
        \A j, k \in 1..Len(pulled) :
            (j < k /\ pulled[j] # None /\ Kind(pulled[j]) = "Failed") => pulled[k] = None

C4_ShutdownAfterDispatch ==
    /\ Len(arguments) <= 1
    /\ (pc = "exited" /\ arguments \in {<<"Ok">>, <<"Err">>}) => ShutdownRequested

(***************************************************************************)
(* C5.  With an existing keypair file and no identity from a config, a     *)
(* failure to base64-decode the file or to parse the bytes as a keypair is *)
(* not fatal: only a file-system error aborts identity resolution.         *)
(* (main.rs 65: the `?` on engine.decode returns the DecodeError.)         *)
(***************************************************************************)
C5_DecodeErrorsNotFatal ==
    (result = "Err" /\ fsOps = <<"is_file", "read_to_string">> /\ calls = <<>>)
        => err = "fs::read_to_string"

(***************************************************************************)
(* C6.  Identity precedence: when the config yields an identity, that      *)
(* identity is the one installed into the node, also with a keypair path   *)
(* given; the keypair file is then neither read nor created nor written.   *)
(***************************************************************************)
C6_ConfigIdentityWins ==
    ConfigIdentity # None =>
        /\ fsOps = <<>>
        /\ generated = None
        /\ file = file0
        /\ pc \notin {"config"} => keypair = ConfigIdentity
        /\ uninitialized.built => uninitialized.keypair = ConfigIdentity

\* config identity and a keypair file holding another key: the node is started
C6_Witness ==
    /\ ConfigIdentity # None
    /\ opt.keypair
    /\ file # None
    /\ \E k \in Keys :
        /\ Some(k) # ConfigIdentity
        /\ file = Some(encode(to_protobuf_encoding(k)))
        /\ from_protobuf_encoding(Unwrap(decode(Unwrap(file)))) = Some(k)
    /\ Started
    /\ uninitialized.keypair = ConfigIdentity

(***************************************************************************)
(* C7.  The keypair file is written only in the generate branch: a keypair *)
(* is generated and the file written, once, exactly when no identity came  *)
(* from a config, a keypair path was given and no file was at the path; in *)
(* every other branch nothing is generated and the file stays as it was.   *)
(***************************************************************************)
C7_WriteOnlyWhenGenerating ==
    /\ Writes <= 1
    /\ Writes = 1 <=> generated # None
    /\ generated # None => GenerateBranch
    /\ (GenerateBranch /\ pc \notin {"config", "keypair"}) => (generated # None /\ Writes = 1)
    /\ ~GenerateBranch => (file = file0 /\ generated = None)
    /\ file # file0 => file = Some(encode(to_protobuf_encoding(Unwrap(generated))))

\* the generate branch was taken and the file is there
C7_Witness ==
    /\ GenerateBranch
    /\ generated # None
    /\ fsOps = <<"is_file", "write">>
    /\ file = Some(encode(to_protobuf_encoding(Unwrap(generated))))
    /\ keypair = generated

(***************************************************************************)
(* C8.  Keypair round trip across runs: when the first run generated a     *)
(* keypair and wrote it, a second run with the same path and no config     *)
(* resolves an identity with the same peer identifier from the file, and   *)
(* generates and writes nothing; only a failing read can stop it.          *)
(***************************************************************************)
C8_RoundTrip ==
    (run = "second" /\ persisted # None /\ opt.config = None /\ opt.keypair) =>
        /\ generated = None
        /\ Writes = 0
        /\ file = file0
        /\ (result = "Err" /\ calls = <<>>) => err = "fs::read_to_string"
        /\ (pc \notin {"config", "keypair"} /\ err # "fs::read_to_string") =>
            /\ keypair # None
            /\ PeerIdOf(Unwrap(keypair)) = PeerIdOf(Unwrap(persisted))
        /\ uninitialized.built => uninitialized.keypair = keypair

\* the second run started the node with the identity of the first
C8_Witness ==
    /\ run = "second" /\ persisted # None /\ opt.config = None /\ opt.keypair
    /\ fsOps = <<"is_file", "read_to_string">>
    /\ Started
    /\ uninitialized.keypair = persisted

(***************************************************************************)
(* C9.  Per-relay isolation: each of the N relay addresses is tried, in    *)
(* list order, one at a time, whatever the others gave; a failure is       *)
(* printed and neither aborts the process nor keeps the later relays from  *)
(* being tried.                                                            *)
(***************************************************************************)
C9_RelayIsolation ==
    /\ Len(RelayCalls) <= Len(opt.relays)
    /\ \A j \in 1..Len(RelayCalls) : RelayCalls[j].arg[1] = opt.relays[j]
    /\ pc = "relays" => Len(RelayCalls) = i - 1
    /\ (Started /\ pc # "relays") => Len(RelayCalls) = Len(opt.relays)
    /\ err # "add_listening_address"
    /\ \A j \in 1..Len(RelayCalls) :
        ~RelayCalls[j].ok <=>
            \E k \in 1..Len(output) :
                output[k] = <<"Error listening on relay circuit", opt.relays[j]>>

\* the first relay failed, and the relays after it were tried all the same
C9_Witness ==
    /\ Len(opt.relays) >= 2
    /\ pc = "bootstraps"
    /\ Len(RelayCalls) = Len(opt.relays)
    /\ ~RelayCalls[1].ok
    /\ RelayCalls[2].ok

(***************************************************************************)
(* C10.  Relay server and relay use exclude each other: the node is        *)
(* configured as a relay server exactly when no relay address was given,   *)
(* and circuit-relay listening addresses are registered only in runs       *)
(* without the relay server.                                               *)
(***************************************************************************)
C10_RelayServerXorRelays ==
    /\ uninitialized.built => (uninitialized.relay_server <=> opt.relays = <<>>)
    /\ RelayCalls # <<>> => (uninitialized.built /\ ~uninitialized.relay_server)
    /\ listening # <<>> => (~uninitialized.relay_server /\ opt.relays # <<>>)

\* a run with relays: a circuit address is registered and no relay server
C10_Witness ==
    /\ listening # <<>>
    /\ uninitialized.built
    /\ ~uninitialized.relay_server

(***************************************************************************)
(* C11  An error returned by a bootstrap attempt.                          *)
(***************************************************************************)
FailedBootstrap == \E j \in CallsOf("bootstrap") : ~calls[j].ok

BootstrapCompleted == \E j \in CallsOf("bootstrap") : calls[j].ok

\* main has reached the match on opt.command (main.rs 128) or is past it
ForegroundFlowStarted ==
    \/ pc \in {"command", "dispatch", "stream", "ctrl_c", "exit_daemon"}
    \/ arguments # <<>>
    \/ CallsOf("ctrl_c") # {}
    \/ ShutdownRequested

CommandOutput ==
    SelectSeq(output, LAMBDA line : line[1] # "Error listening on relay circuit")

\* the items of the given kind among the first n pulled, as lines with the label
LinesOf(kind, label, n) ==
    LET items == SelectSeq(SubSeq(pulled, 1, n),
                           LAMBDA item : item # None /\ Kind(item) = kind)
    IN  [k \in 1..Len(items) |-> <<label, Unwrap(items[k])[2]>>]

\* C13: for Ls and Cat, once an error item was pulled it is the last item
\* pulled, the output is exactly the file entries (byte chunks) before it in
\* stream order followed by the error message, every chunk before it was
\* written successfully, and the dispatcher has returned success.
C13_FirstErrorEndsStream ==
    (opt.command # None /\ Command \in {"Ls", "Cat"} /\ ErrorItems # {}) =>
        LET last == Len(pulled) IN
        /\ ErrorItems = {last}
        /\ \A j \in 1..last : pulled[j] # None
        /\ arguments = <<"Ok">>
        /\ result # "Err"
        /\ pc \in {"exit_daemon", "exited"}
        /\ Command = "Ls" =>
            CommandOutput = LinesOf("File", "File", last - 1)
                                \o <<<<"Error listening item", last>>>>
        /\ Command = "Cat" =>
            /\ CommandOutput = LinesOf("Ok", "bytes", last - 1) \o <<<<"Error", last>>>>
            /\ Cardinality({j \in CallsOf("stdout.write_all") : calls[j].ok})
                   = Len(LinesOf("Ok", "bytes", last - 1))

C13_Witness ==
    /\ opt.command # None
    /\ Command = "Ls"
    /\ Len(pulled) = 3
    /\ pulled[1] # None /\ Kind(pulled[1]) = "File"
    /\ pulled[2] # None /\ Kind(pulled[2]) = "Directory"
    /\ pulled[3] # None /\ Kind(pulled[3]) = "Error"
    /\ output # <<>>
    /\ output[Len(output)] = <<"Error listening item", 3>>
    /\ arguments = <<"Ok">>

(***************************************************************************)
(* C14  Pin list skips the pins that failed to resolve.                    *)
(***************************************************************************)
Resolved == {j \in 1..Len(pulled) : pulled[j] # None /\ Kind(pulled[j]) # "Err"}

\* C14: for PinLs, each line of the output is the line of a pulled item that
\* resolved, with the label of the item's mode; every such item has exactly
\* one line and the lines are in stream order; a failed item has no line and
\* does not end the loop: the dispatcher returns only once the stream is
\* exhausted.
C14_PinLsSkipsFailed ==
    (opt.command # None /\ Command = "PinLs") =>
        LET out == CommandOutput IN
        /\ \A k \in 1..Len(out) :
            /\ out[k][2] \in Resolved
            /\ out[k][1] = ModeLabel(Kind(pulled[out[k][2]]))
            /\ out[k][1] \in {"direct", "indirect", "recursive"}
        /\ \A k, l \in 1..Len(out) : k < l => out[k][2] < out[l][2]
        /\ \A j \in Resolved : \E k \in 1..Len(out) : out[k][2] = j
        /\ Len(out) = Cardinality(Resolved)
        /\ \A j \in 1..Len(pulled) : pulled[j] = None => j = Len(pulled)
        /\ arguments = <<"Ok">> => (pulled # <<>> /\ pulled[Len(pulled)] = None)
        /\ (pc = "stream") => \A j \in 1..Len(pulled) : pulled[j] # None
        /\ arguments \in {<<>>, <<"running">>, <<"Ok">>}

C14_Witness ==
    /\ opt.command # None
    /\ Command = "PinLs"
    /\ Len(pulled) = 3
    /\ pulled[1] # None /\ Kind(pulled[1]) = "Err"
    /\ pulled[2] # None /\ Kind(pulled[2]) = "Recursive"
    /\ pulled[3] = None
    /\ CommandOutput = <<<<"recursive", 2>>>>
    /\ arguments = <<"Ok">>

(***************************************************************************)
(* C15  With no command, main waits for the interrupt signal.              *)
(***************************************************************************)
\* tokio::signal::ctrl_c().await returned Ok(()): the signal was received
SignalReceived == \E j \in CallsOf("ctrl_c") : calls[j].ok

\* C15: with no command supplied, the shutdown request is never made before
\* the interrupt signal has been received, the process, once it waits for the
\* signal, does not exit without having received it, and once the signal has
\* been received the shutdown request is the step main takes next.
\* (main.rs 130: the `?` returns from main when waiting for the signal fails.)
C15_BlocksOnTrigger ==
    opt.command = None =>
        /\ ShutdownRequested =>
            \E j \in CallsOf("ctrl_c") : calls[j].ok /\ \A e \in CallsOf("exit_daemon") : j < e
        /\ pc = "ctrl_c" => (result = "running" /\ ~ENABLED ExitDaemon)
        /\ (pc = "exited" /\ CallsOf("ctrl_c") # {}) => SignalReceived
        /\ (SignalReceived /\ ~ShutdownRequested) => ENABLED ExitDaemon

(***************************************************************************)
(* C16  A config whose identity cannot be parsed.                          *)
(***************************************************************************)
\* the config was loaded and config.identity.keypair() returned Err
IdentityParseFailed ==
    /\ opt.config # None
    /\ Unwrap(opt.config).load = "Ok"
    /\ Unwrap(opt.config).identity = None

\* what the keypair-file branch (main.rs 61-74) resolves on its own
KeypairFileIdentity ==
    IF ~opt.keypair THEN None
    ELSE IF file0 = None THEN generated
    ELSE LET bytes == decode(Unwrap(file0))
         IN  IF bytes = None THEN None ELSE from_protobuf_encoding(Unwrap(bytes))

\* C16: when the config was loaded and its identity could not be parsed, main
\* does not return an error for it: with a keypair path the keypair-file
\* branch is entered, without one no identity is resolved and no file is
\* touched; the node is configured with what that branch resolved and the
\* start is attempted; an error main returns comes from a later step.
C16_ParseFailureFallsThrough ==
    IdentityParseFailed =>
        /\ err \notin {"IpfsConfig::load", "identity.keypair"}
        /\ (pc = "exited" /\ result = "Err") => (fsOps # <<>> \/ calls # <<>>)
        /\ (pc # "config" /\ ~opt.keypair) => (fsOps = <<>> /\ keypair = None)
        /\ (pc \notin {"config", "keypair"} /\ opt.keypair) =>
            (fsOps # <<>> /\ fsOps[1] = "is_file")
        /\ uninitialized.built => uninitialized.keypair = KeypairFileIdentity
        /\ pc = "start" => ENABLED Start
        /\ (pc = "exited" /\ ~opt.keypair) => CallsOf("start") # {}

C16_Witness ==
    /\ IdentityParseFailed
    /\ opt.keypair
    /\ file0 # None
    /\ KeypairFileIdentity # None
    /\ Started
    /\ uninitialized.keypair = KeypairFileIdentity

(***************************************************************************)
(* C17  Startup ordering.                                                  *)
(***************************************************************************)
\* something of relay processing, bootstrap registration, bootstrap
\* invocation or command dispatch has happened in this run
AfterStartWork ==
    \/ pc \in {"relays", "bootstraps", "get_bootstraps", "bootstrap", "command",
               "dispatch", "stream", "ctrl_c", "exit_daemon"}
    \/ Len(calls) > 1
    \/ listening # <<>>
    \/ bootstraps # {}
    \/ output # <<>>
    \/ arguments # <<>>

StartupOrder ==
    /\ pc \in {"config", "keypair"} => (~uninitialized.built /\ calls = <<>>)
    /\ uninitialized.built => uninitialized.keypair = keypair
    /\ pc = "configure" => (~uninitialized.built /\ calls = <<>>)
    /\ calls # <<>> =>
        /\ uninitialized.built
        /\ calls[1].op = "start"
        /\ CallsOf("start") = {1}
    /\ AfterStartWork => Started
    /\ (calls # <<>> /\ ~calls[1].ok) =>
        /\ ~AfterStartWork
        /\ pc = "exited" /\ result = "Err" /\ err = "start"

\* within a run, the identity and the keypair file change only during identity
\* resolution, and the configuration only at its assembly
StartupSteps ==
    /\ (keypair' # keypair \/ file' # file \/ fsOps' # fsOps \/ generated' # generated)
        => (pc \in {"config", "keypair"} \/ run' # run)
    /\ uninitialized' # uninitialized => (pc = "configure" \/ run' # run)

\* C17: in every run identity resolution, with any read or write of the
\* keypair file, is over before the configuration is assembled, the
\* configuration is assembled before the node is started, and relay
\* processing, bootstrap registration, bootstrap invocation and command
\* dispatch happen only after the start has succeeded; after a failed start
\* none of them happens.
C17_StartupOrdering == []StartupOrder /\ [][StartupSteps]_vars

C17_Witness ==
    /\ generated # None
    /\ fsOps = <<"is_file", "write">>
    /\ Started
    /\ listening # <<>>
    /\ BootstrapCompleted
    /\ pc = "ctrl_c"

(***************************************************************************)
(* C18  Relays: the circuit-relay listening address.                       *)
(***************************************************************************)
\* main's dials of a relay: calls of ipfs.connect (main.rs has none)
DialCalls == CallsOf("connect")

DefaultBootstrapCalls == CallsOf("default_bootstrap")

AddBootstrapCalls == SelectSeq(calls, LAMBDA c : c.op = "add_bootstrap")

\* main is past the match of main.rs 113-122 without an error
RegistrationFinished ==
    \/ pc \in {"get_bootstraps", "bootstrap", "command", "dispatch", "stream",
               "ctrl_c", "exit_daemon"}
    \/ CallsOf("get_bootstraps") # {}

\* main has reached the match of main.rs 113 and is not in the middle of it
RegistrationAttempted == Started /\ pc \notin {"relays", "bootstraps"}

\* C19: the default bootstrap set is registered, by one call, exactly when no
\* explicit bootstrap address was given; the explicit addresses are
\* registered each by one call, in list order, and the default set is not;
\* when registration has finished the node's bootstrap peers are exactly the
\* registered ones; bootstrap is invoked only after registration has finished
\* and the peers were read, and only if there is a peer.
C19_BootstrapRegistration ==
    /\ Cardinality(DefaultBootstrapCalls) <= 1
    /\ DefaultBootstrapCalls # {} => opt.bootstraps = <<>>
    /\ (RegistrationAttempted /\ opt.bootstraps = <<>>) => DefaultBootstrapCalls # {}
    /\ opt.bootstraps = <<>> => AddBootstrapCalls = <<>>
    /\ opt.bootstraps # <<>> => bootstraps \cap DefaultBootstrap = {}
    /\ Len(AddBootstrapCalls) <= Len(opt.bootstraps)
    /\ \A j \in 1..Len(AddBootstrapCalls) : AddBootstrapCalls[j].arg = opt.bootstraps[j]
    /\ RegistrationAttempted => AddBootstrapCalls # <<>> \/ opt.bootstraps = <<>>
    /\ RegistrationFinished =>
        /\ \A j \in DefaultBootstrapCalls : calls[j].ok
        /\ \A j \in 1..Len(AddBootstrapCalls) : AddBootstrapCalls[j].ok
        /\ IF opt.bootstraps = <<>>
           THEN bootstraps = DefaultBootstrap
           ELSE /\ Len(AddBootstrapCalls) = Len(opt.bootstraps)
                /\ bootstraps = {<<"addr", opt.bootstraps[j]>> : j \in 1..Len(opt.bootstraps)}
    /\ \A b \in CallsOf("bootstrap") :
        /\ RegistrationFinished
        /\ bootstraps # {}
        /\ \E g \in CallsOf("get_bootstraps") :
            /\ calls[g].ok
            /\ g < b
            /\ \A r \in 1..Len(calls) :
                calls[r].op \in {"default_bootstrap", "add_bootstrap"} => r < g

C19_Witness ==
    /\ Len(opt.bootstraps) = 2
    /\ Len(AddBootstrapCalls) = 2
    /\ AddBootstrapCalls[1].arg = opt.bootstraps[1]
    /\ AddBootstrapCalls[2].arg = opt.bootstraps[2]
    /\ bootstraps = {<<"addr", opt.bootstraps[1]>>, <<"addr", opt.bootstraps[2]>>}
    /\ BootstrapCalls = 1

(***************************************************************************)
(* C20  Connection tracking in ext_behaviour::Behaviour, over the events   *)
(* on_swarm_event was called with.                                         *)
(***************************************************************************)
IsEstablished(e, c) == e.event = "ConnectionEstablished" /\ e.connection_id = c

IsClosed(e, c) == e.event = "ConnectionClosed" /\ e.connection_id = c

\* the connection ids established among the first n events and not closed since
Open(n) ==
    {c \in ConnectionIds :
        \E j \in 1..n :
            /\ IsEstablished(events[j], c)
            /\ \A k \in (j + 1)..n : ~IsClosed(events[k], c)}

\* the peer of the latest establishment of c among the first n events
LatestPeer(c, n) ==
    LET j == CHOOSE m \in 1..n :
                /\ IsEstablished(events[m], c)
                /\ \A k \in (m + 1)..n : ~IsEstablished(events[k], c)
    IN  events[j].peer_id

\* the positions of the ConnectionEstablished and ConnectionClosed events
ConnectionEvents ==
    {j \in 1..Len(events) : events[j].event \in {"ConnectionEstablished", "ConnectionClosed"}}

\* the position of the k-th of them
ConnectionEvent(k) ==
    CHOOSE j \in ConnectionEvents : Cardinality({m \in ConnectionEvents : m <= j}) = k

\* the "Connections: n" lines printed
ConnectionLines == SelectSeq(printed, LAMBDA line : line[1] = "Connections")

\* C20: after any sequence of swarm events the connection map holds exactly
\* the connection ids established and not closed since, each with the peer of
\* its latest establishment; every ConnectionEstablished or ConnectionClosed
\* event whose handling did not panic printed one line, with the size of that
\* set after the event; closing an id that is not tracked leaves the map as
\* it was and does not panic; the assertion fails only on a close event that
\* names another peer than the one recorded for a tracked id.
C20_ConnectionTracking ==
    LET n == Len(events) IN
    /\ DOMAIN connections = Open(n)
    /\ \A c \in DOMAIN connections : connections[c] = LatestPeer(c, n)
    /\ Len(ConnectionLines) = Cardinality(ConnectionEvents) - (IF panicked THEN 1 ELSE 0)
    /\ \A k \in 1..Len(ConnectionLines) :
        ConnectionLines[k][2] = Cardinality(Open(ConnectionEvent(k)))
    /\ (n > 0 /\ events[n].event = "ConnectionClosed"
            /\ events[n].connection_id \notin Open(n - 1)) =>
        /\ ~panicked
        /\ Open(n) = Open(n - 1)
        /\ \A c \in Open(n) : LatestPeer(c, n) = LatestPeer(c, n - 1)
    /\ panicked <=>
        /\ n > 0
        /\ events[n].event = "ConnectionClosed"
        /\ events[n].connection_id \in Open(n - 1)
        /\ LatestPeer(events[n].connection_id, n - 1) # events[n].peer_id

\* a connection was established, established again with another peer, closed
\* with that peer, and an untracked id was closed: nothing is tracked
C20_Witness ==
    /\ Len(events) = 4
    /\ IsEstablished(events[1], "c1") /\ events[1].peer_id = "p1"
    /\ IsEstablished(events[2], "c1") /\ events[2].peer_id = "p2"
    /\ IsClosed(events[3], "c1") /\ events[3].peer_id = "p2"
    /\ IsClosed(events[4], "c2")
    /\ DOMAIN connections = {}
    /\ ~panicked
    /\ printed = <<<<"Connections", 1>>, <<"Connections", 1>>,
                   <<"Connections", 0>>, <<"Connections", 0>>>>

====
